---- MODULE Spec2Model ----
(***************************************************************************)
(* Lighten-blend compositing tool: a model of the video request            *)
(* (lighten_blend_video.py: probing, dispatch, streaming pass, batched     *)
(* processing) and of the still-image request (lighten_blend_image.py).    *)
(*                                                                         *)
(* Frames are solid-colour: a frame is its shape (w, h) and one pixel      *)
(* <<b, g, r>>.  cv2.resize of a solid-colour frame changes the shape and  *)
(* keeps the colour; np.maximum needs equal shapes and is elementwise.     *)
(* The encoder (ffmpeg) and the file system are the environment: every     *)
(* outcome the code has a branch for is a nondeterministic choice.         *)
(* Intermediate files are stored without loss (frames read back as         *)
(* written).  subprocess behaves as on Windows, the target platform:       *)
(* communicate() after stdin.close() collects the exit status.             *)
(*                                                                         *)
(* Spec is the video request, SpecImage the image request, SpecRequests    *)
(* either of them.  In Spec a write to the encoder is one step that        *)
(* succeeds or raises; SpecPipes is the streaming pass again from the      *)
(* spawned encoder on, with the encoder as a process of its own and the    *)
(* stdin and stderr pipes between the two of bounded capacity.  SpecGui    *)
(* is the window of main.py: its file list, its two create buttons and     *)
(* the worker threads it starts.                                           *)
(***************************************************************************)
EXTENDS Integers, Sequences, FiniteSets, TLC

\* ------------------------------------------------------------------ bounds
\* longest list of paths handed to a request
MaxSources == 3

\* ------------------------------------------------------- program constants
MAX_MEMORY_BYTES == 1073741824

\* ----------------------------------------------------------------- helpers
Max2(a, b) == IF a >= b THEN a ELSE b
Min2(a, b) == IF a <= b THEN a ELSE b

RECURSIVE MaxOfSeq(_)
\* max(...) over a non-empty sequence of numbers
MaxOfSeq(s) ==
    IF Len(s) = 1 THEN s[1] ELSE Max2(s[1], MaxOfSeq(Tail(s)))

RECURSIVE SelectIdx(_, _)
\* list comprehension [x for x in s if keep[x]], order kept
SelectIdx(s, keep) ==
    IF s = << >> THEN << >>
    ELSE IF keep[1] THEN <<s[1]>> \o SelectIdx(Tail(s), Tail(keep))
         ELSE SelectIdx(Tail(s), Tail(keep))

SeqsUpTo(S, n) == UNION { [1..k -> S] : k \in 0..n }

\* ------------------------------------------------------------------ frames
Black == <<0, 0, 0>>
Frame(w, h, px) == [w |-> w, h |-> h, px |-> px]
NoFrame == [w |-> 0, h |-> 0, px |-> Black]
\* what np.maximum raises on operands of different shapes
ShapeError == [w |-> -1, h |-> -1, px |-> Black]

\* cv2.resize(frame, (base_width, base_height))
Resize(frame, bw, bh) == [frame EXCEPT !.w = bw, !.h = bh]

\* mutant of Fit: a frame of another shape is handed on as it is
FitUnresized(frame, bw, bh) == frame

\* the frame as handed to np.maximum: resized iff its shape differs
Fit(frame, bw, bh) ==
    IF frame.w # bw \/ frame.h # bh THEN Resize(frame, bw, bh) ELSE frame

\* mutant of Maximum: the new frame overwrites the accumulator
MaximumLastWins(a, b) == b

\* np.maximum(a, b): elementwise maximum, equal shapes required
Maximum(a, b) ==
    IF a = ShapeError \/ b = ShapeError \/ a.w # b.w \/ a.h # b.h
    THEN ShapeError
    ELSE [a EXCEPT !.px = [c \in 1..3 |-> Max2(a.px[c], b.px[c])]]

\* np.zeros((base_height, base_width, 3), dtype=np.uint8)
Zeros(bw, bh) == Frame(bw, bh, Black)

\* ------------------------------------------------------- the video sources
\* The files a request can name.  frame_count is the container's metadata,
\* frames what cap.read() delivers; probe: get_video_info opens the file;
\* opens: cv2.VideoCapture opens it when the streaming pass starts.
VideoFile(id) ==
    CASE id = 1 -> [probe |-> TRUE, frame_count |-> 2, width |-> 10000, height |-> 10000,
                    opens |-> TRUE, frames |-> <<(<<255, 0, 0>>), (<<0, 128, 0>>)>>]
      [] id = 2 -> [probe |-> TRUE, frame_count |-> 1, width |-> 9000, height |-> 9000,
                    opens |-> TRUE, frames |-> <<(<<0, 255, 0>>)>>]
      [] id = 3 -> [probe |-> TRUE, frame_count |-> 2, width |-> 9000, height |-> 9000,
                    opens |-> TRUE, frames |-> <<(<<0, 0, 255>>)>>]
      [] id = 4 -> [probe |-> FALSE, frame_count |-> 0, width |-> 0, height |-> 0,
                    opens |-> FALSE, frames |-> << >>]
      [] id = 5 -> [probe |-> TRUE, frame_count |-> 1, width |-> 10000, height |-> 10000,
                    opens |-> FALSE, frames |-> <<(<<128, 128, 0>>)>>]
      [] id = 6 -> [probe |-> TRUE, frame_count |-> 2, width |-> 9000, height |-> 9000,
                    opens |-> TRUE, frames |-> <<(<<128, 0, 0>>), (<<0, 0, 128>>)>>]
      [] id = 7 -> [probe |-> TRUE, frame_count |-> 0, width |-> 9000, height |-> 9000,
                    opens |-> TRUE, frames |-> << >>]
      [] OTHER  -> [probe |-> TRUE, frame_count |-> 1, width |-> 16384, height |-> 8192,
                    opens |-> TRUE, frames |-> <<(<<0, 64, 64>>)>>]
VideoFileIds == 1..8

SrcPath(id) == [kind |-> "src", id |-> id]
TmpPath(k) == [kind |-> "tmp", id |-> k]
OutPath == [kind |-> "out", id |-> 0]

VARIABLES
    video_paths,        \* the request's input list
    output_path,        \* where the pass running now writes
    pc,                 \* position in create_lighten_blend_video / _batched
    result,             \* what create_lighten_blend_video returned
    log,                \* messages delivered through progress_callback
    video_infos,        \* probed sources
    max_frames, base_width, base_height, max_concurrent_videos,
    fs,                 \* files written by encoders: path -> content
    temp_dir,           \* "none", "exists", "removed", "remove_failed"
    intermediate_files, batch_idx,
    b_ret,              \* what _create_lighten_blend_video_batched is about to return
    \* the streaming pass running now
    ppc,                \* position in _create_lighten_blend_video_streaming
    p_infos,            \* its video_infos argument
    p_cb,               \* TRUE iff it was given the progress callback
    caps,               \* its open captures
    frame_idx,
    written,            \* what it wrote to proc.stdin, in order
    pending,            \* a return value set by the except block
    p_ret,              \* its outcome: "none", "true", "false", "raised"
    proc,               \* "none", "missing", "unspawnable", "running", "exited"
    stdin,              \* "none", "open", "closed"
    returncode,
    \* bookkeeping
    open_handles,       \* cv2.VideoCapture objects opened and not released
    frames_written,     \* frames written to any encoder in this request
    spawned,            \* encoder processes spawned in this request
    \* create_lighten_blend_image
    file_paths,         \* its input list
    all_files,          \* the list after the folders are expanded
    file_idx,           \* idx of enumerate(all_files, start=1)
    composite,          \* the float32 accumulator
    processed,
    save,               \* how cv2.imwrite ended: "none", "written", "returned_false", "raised"
    image_out,          \* the image file written
    \* the pipes between a pass and its encoder
    stdin_pipe,         \* chunks written to proc.stdin and not yet read by the encoder
    stderr_pipe,        \* chunks the encoder wrote to stderr and nobody read yet
    enc,                \* the encoder: "none", "logging", "reading", "done", "failed"
    enc_todo,           \* chunks of diagnostics the encoder has still to write
    sent,               \* chunks of the current frame already written
    \* the window (App)
    app_file_paths,     \* App.file_paths, the list shown
    btn_create_image,   \* state of the button: "normal" or "disabled"
    btn_create_video,
    progress,           \* TRUE while the progress bar is running
    running,            \* worker threads inside a compositing request
    completions         \* on_complete callbacks queued with self.after(0, ...)

vars == <<video_paths, output_path, pc, result, log, video_infos, max_frames,
          base_width, base_height, max_concurrent_videos, fs, temp_dir,
          intermediate_files, batch_idx, b_ret, ppc, p_infos, p_cb, caps, frame_idx,
          written, pending, p_ret, proc, stdin, returncode, open_handles,
          frames_written, spawned, file_paths, all_files, file_idx, composite,
          processed, save, image_out, stdin_pipe, stderr_pipe, enc, enc_todo,
          sent, app_file_paths, btn_create_image, btn_create_video, progress,
          running, completions>>

guiVars == <<app_file_paths, btn_create_image, btn_create_video, progress,
             running, completions>>

pipeVars == <<stdin_pipe, stderr_pipe, enc, enc_todo, sent>>
imgVars == <<file_paths, all_files, file_idx, composite, processed, save, image_out>>
reqVars == <<video_paths, video_infos, max_frames, base_width, base_height,
             max_concurrent_videos, imgVars>>
passVars == <<ppc, p_infos, p_cb, caps, frame_idx, written, pending, p_ret,
              proc, stdin, returncode, output_path>>

\* progress_callback(msg) of a pass: dropped when the callback is None
Say(cb, l, msgs) == IF cb THEN l \o msgs ELSE l

\* ------------------------------------------------------------ file access
\* what cap.read() can deliver from a path, as frames
Footage(path, fsys) ==
    IF path.kind = "src"
    THEN [k \in 1..Len(VideoFile(path.id).frames) |->
            Frame(VideoFile(path.id).width, VideoFile(path.id).height,
                  VideoFile(path.id).frames[k])]
    ELSE IF path \in DOMAIN fsys THEN fsys[path].frames ELSE << >>

\* cv2.VideoCapture(path).isOpened() in get_video_info
Probes(path, fsys) ==
    IF path.kind = "src" THEN VideoFile(path.id).probe
    ELSE path \in DOMAIN fsys /\ fsys[path].complete

\* cv2.VideoCapture(path).isOpened() in the streaming pass
Opens(path, fsys) ==
    IF path.kind = "src" THEN VideoFile(path.id).opens
    ELSE path \in DOMAIN fsys /\ fsys[path].complete

\* get_video_info: the info dict (ok = FALSE stands for None)
get_video_info(path, fsys) ==
    IF ~Probes(path, fsys)
    THEN [ok |-> FALSE, path |-> path, frame_count |-> 0, width |-> 0, height |-> 0]
    ELSE IF path.kind = "src"
    THEN [ok |-> TRUE, path |-> path,
          frame_count |-> VideoFile(path.id).frame_count,
          width |-> VideoFile(path.id).width, height |-> VideoFile(path.id).height]
    ELSE [ok |-> TRUE, path |-> path, frame_count |-> Len(fsys[path].frames),
          width |-> fsys[path].width, height |-> fsys[path].height]

\* ------------------------------------------------- create_lighten_blend_video
\* mutant of Usable: the frame count is not looked at
UsableAnyCount(info) == info.ok

\* info and info['frame_count'] > 0
Usable(info) == info.ok /\ info.frame_count > 0

\* the probing loop: the infos kept, in input order
ProbeAll(paths, fsys) ==
    LET infos == [k \in 1..Len(paths) |-> get_video_info(SrcPath(paths[k]), fsys)]
    IN  SelectIdx(infos, [k \in 1..Len(paths) |-> Usable(infos[k])])

\* one warning per path that was not kept
ProbeWarnings(paths, fsys) ==
    LET infos == [k \in 1..Len(paths) |-> get_video_info(SrcPath(paths[k]), fsys)]
    IN  SelectIdx([k \in 1..Len(paths) |-> "warn_unreadable"],
                  [k \in 1..Len(paths) |-> ~Usable(infos[k])])

\* max(info['frame_count'] for info in video_infos)
MaxFrames(infos) == MaxOfSeq([k \in 1..Len(infos) |-> infos[k].frame_count])

\* calculate_frame_memory: each source's frame, the composite buffer and the
\* output buffer
calculate_frame_memory(width, height, num_videos) ==
    LET frame_size == width * height * 3
    IN  frame_size * (num_videos + 2)

\* mutant of ConcurrencyLimit: the two buffers are not set aside
ConcurrencyLimitNoOverhead(w, h) ==
    LET frame_size == w * h * 3
    IN  Max2(1, MAX_MEMORY_BYTES \div frame_size)

\* max(1, (MAX_MEMORY_BYTES - frame_size * 2) // frame_size)
ConcurrencyLimit(w, h) ==
    LET frame_size == w * h * 3
    IN  Max2(1, (MAX_MEMORY_BYTES - frame_size * 2) \div frame_size)

\* a call of _create_lighten_blend_video_streaming(infos, target, ..., cb)
StartPass(infos, target, cb) ==
    /\ ppc' = "open"
    /\ p_infos' = infos
    /\ p_cb' = cb
    /\ output_path' = target
    /\ caps' = << >>
    /\ frame_idx' = 0
    /\ written' = << >>
    /\ pending' = "none"
    /\ p_ret' = "none"
    /\ proc' = "none"
    /\ stdin' = "none"
    /\ returncode' = 0

\* lines 94-115: the empty list, the probing loop, no valid source
Probe ==
    /\ pc = "probe"
    /\ IF video_paths = << >>
       THEN /\ log' = log \o <<"no_videos">>
            /\ result' = "false"
            /\ pc' = "done"
            /\ UNCHANGED video_infos
       ELSE LET infos == ProbeAll(video_paths, fs)
                l == log \o <<"probing">> \o ProbeWarnings(video_paths, fs)
            IN  /\ video_infos' = infos
                /\ IF infos = << >>
                   THEN /\ log' = l \o <<"no_valid">>
                        /\ result' = "false"
                        /\ pc' = "done"
                   ELSE /\ log' = l
                        /\ result' = result
                        /\ pc' = "dispatch"
    /\ UNCHANGED <<video_paths, max_frames, base_width, base_height,
                   max_concurrent_videos, fs, temp_dir, intermediate_files,
                   batch_idx, b_ret, open_handles, frames_written, spawned>>
    /\ UNCHANGED passVars
    /\ UNCHANGED imgVars
    /\ UNCHANGED pipeVars
    /\ UNCHANGED guiVars

\* lines 117-153: output length, base resolution, limit, choice of the path
Dispatch ==
    /\ pc = "dispatch"
    /\ max_frames' = MaxFrames(video_infos)
    /\ base_width' = video_infos[1].width
    /\ base_height' = video_infos[1].height
    /\ max_concurrent_videos' =
           ConcurrencyLimit(video_infos[1].width, video_infos[1].height)
    /\ IF Len(video_infos) > max_concurrent_videos'
       THEN /\ log' = log \o <<"settings", "memory", "use_batch">>
            /\ pc' = "batched"
            /\ UNCHANGED passVars
       ELSE /\ log' = log \o <<"settings", "memory">>
            /\ pc' = "streaming"
            /\ StartPass(video_infos, OutPath, TRUE)
    /\ UNCHANGED <<video_paths, video_infos, result, fs, temp_dir,
                   intermediate_files, batch_idx, b_ret, open_handles,
                   frames_written, spawned>>
    /\ UNCHANGED imgVars
    /\ UNCHANGED pipeVars
    /\ UNCHANGED guiVars

\* ------------------------------------- _create_lighten_blend_video_streaming
\* the dict appended to caps for an info whose capture opened
CapOf(info) ==
    [path |-> info.path, frame_count |-> info.frame_count,
     width |-> info.width, height |-> info.height, pos |-> 0]

\* lines 169-181: the captures that opened, in order
OpenAll(infos, fsys) ==
    SelectIdx([k \in 1..Len(infos) |-> CapOf(infos[k])],
              [k \in 1..Len(infos) |-> Opens(infos[k].path, fsys)])

\* lines 169-186
OpenCaps ==
    /\ ppc = "open"
    /\ caps' = OpenAll(p_infos, fs)
    /\ open_handles' = open_handles + Len(caps')
    /\ IF caps' = << >>
       THEN /\ log' = Say(p_cb, log, <<"open_failed">>)
            /\ p_ret' = "false"
            /\ ppc' = "ret"
       ELSE /\ log' = log
            /\ p_ret' = p_ret
            /\ ppc' = "locate"
    /\ UNCHANGED <<pc, result, fs, temp_dir, intermediate_files, batch_idx,
                   b_ret, frames_written, spawned, p_infos, p_cb, frame_idx,
                   written, pending, proc, stdin, returncode, output_path>>
    /\ UNCHANGED reqVars
    /\ UNCHANGED pipeVars
    /\ UNCHANGED guiVars

\* mutant of AfterLocate: the check of the path is missing
AfterLocateUnchecked(found) == "spawn"

\* if not ffmpeg_path: ... return False
AfterLocate(found) == IF found THEN "spawn" ELSE "ret"

\* lines 189-193: ffmpeg_manager.get_ffmpeg_path(), a path or None
LocateFfmpeg ==
    /\ ppc = "locate"
    /\ \E found \in BOOLEAN :
          /\ ppc' = AfterLocate(found)
          /\ IF found
             THEN UNCHANGED <<log, p_ret, proc>>
             ELSE /\ log' = Say(p_cb, log, <<"ffmpeg_missing">>)
                  /\ p_ret' = "false"
                  /\ proc' = "missing"
    /\ UNCHANGED <<pc, result, fs, temp_dir, intermediate_files, batch_idx,
                   b_ret, open_handles, frames_written, spawned, p_infos, p_cb,
                   caps, frame_idx, written, pending, stdin, returncode,
                   output_path>>
    /\ UNCHANGED reqVars
    /\ UNCHANGED pipeVars
    /\ UNCHANGED guiVars

\* the output file as the encoder leaves it
EncodedFile(frames, complete) ==
    [frames |-> frames, width |-> base_width, height |-> base_height,
     complete |-> complete]

\* for c in caps: c['cap'].release()
ReleaseAll(n, cs) == n - Len(cs)

\* lines 203-221: subprocess.Popen, FileNotFoundError, any other exception
SpawnEncoder ==
    /\ ppc = "spawn"
    /\ \E outcome \in {"ok", "not_found", "error"} :
          IF outcome = "ok"
          THEN /\ proc' = "running"
               /\ stdin' = "open"
               /\ spawned' = spawned + 1
               /\ fs' = (output_path :> EncodedFile(<< >>, FALSE)) @@ fs
               /\ ppc' = "frames"
               /\ UNCHANGED <<log, p_ret, caps, open_handles>>
          ELSE /\ log' = Say(p_cb, log,
                             <<IF outcome = "not_found"
                               THEN "ffmpeg_missing_install"
                               ELSE "ffmpeg_spawn_failed">>)
               /\ open_handles' = ReleaseAll(open_handles, caps)
               /\ caps' = << >>
               /\ p_ret' = "false"
               /\ proc' = "unspawnable"
               /\ ppc' = "ret"
               /\ UNCHANGED <<stdin, spawned, fs>>
    /\ UNCHANGED <<pc, result, temp_dir, intermediate_files, batch_idx, b_ret,
                   frames_written, p_infos, p_cb, frame_idx, written, pending,
                   returncode, output_path>>
    /\ UNCHANGED reqVars
    /\ UNCHANGED pipeVars
    /\ UNCHANGED guiVars

\* frame_idx < cap_info['frame_count'], and cap.read() returns a frame
Readable(c, idx, fsys) ==
    idx < c.frame_count /\ c.pos < Len(Footage(c.path, fsys))

RECURSIVE Blend(_, _, _, _, _, _, _)
\* lines 226-246: the inner loop over caps from position k on; acc is
\* composite_frame (NoFrame for None)
Blend(cs, k, idx, acc, fsys, bw, bh) ==
    IF k > Len(cs) THEN acc
    ELSE IF Readable(cs[k], idx, fsys)
    THEN LET frame == Fit(Footage(cs[k].path, fsys)[cs[k].pos + 1], bw, bh)
         IN  Blend(cs, k + 1, idx,
                   IF acc = NoFrame THEN frame ELSE Maximum(acc, frame),
                   fsys, bw, bh)
    ELSE Blend(cs, k + 1, idx, acc, fsys, bw, bh)

\* lines 226-250: the frame written for output index idx
CompositeFrame(cs, idx, fsys, bw, bh) ==
    LET composite_frame == Blend(cs, 1, idx, NoFrame, fsys, bw, bh)
    IN  IF composite_frame = NoFrame THEN Zeros(bw, bh) ELSE composite_frame

\* mutant of Advance: every read returns the first frame again
AdvanceStuck(cs, idx, fsys) == cs

\* the decode cursors after the reads of output index idx
Advance(cs, idx, fsys) ==
    [k \in 1..Len(cs) |->
        IF Readable(cs[k], idx, fsys) THEN [cs[k] EXCEPT !.pos = @ + 1] ELSE cs[k]]

\* mutant of LastIndex: range(max_frames - 1)
LastIndexShort(idx, n) == idx + 2 >= n

\* for frame_idx in range(max_frames): is idx the last index
LastIndex(idx, n) == idx + 1 >= n

\* lines 224-274: one iteration of the frame loop, or the except block
ProcessFrame ==
    /\ ppc = "frames"
    /\ LET composite_frame ==
               CompositeFrame(caps, frame_idx, fs, base_width, base_height)
       IN  \E write \in {"ok", "raise"} :
              IF write = "ok" /\ composite_frame # ShapeError
              THEN /\ written' = Append(written,
                                        [idx |-> frame_idx, frame |-> composite_frame])
                   /\ frames_written' = frames_written + 1
                   /\ caps' = Advance(caps, frame_idx, fs)
                   /\ pending' = pending
                   /\ IF LastIndex(frame_idx, max_frames)
                      THEN /\ ppc' = "finally"
                           /\ frame_idx' = frame_idx
                           /\ log' = Say(p_cb, log,
                                         (IF frame_idx % 30 = 0
                                          THEN <<"progress">> ELSE << >>)
                                         \o <<"encode_done">>)
                      ELSE /\ ppc' = "frames"
                           /\ frame_idx' = frame_idx + 1
                           /\ log' = Say(p_cb, log,
                                         IF frame_idx % 30 = 0
                                         THEN <<"progress">> ELSE << >>)
              ELSE /\ log' = Say(p_cb, log, <<"frame_error">>)
                   /\ pending' = "false"
                   /\ ppc' = "finally"
                   /\ caps' = Advance(caps, frame_idx, fs)
                   /\ UNCHANGED <<written, frames_written, frame_idx>>
    /\ UNCHANGED <<pc, result, fs, temp_dir, intermediate_files, batch_idx,
                   b_ret, open_handles, spawned, p_infos, p_cb, p_ret, proc,
                   stdin, returncode, output_path>>
    /\ UNCHANGED reqVars
    /\ UNCHANGED pipeVars
    /\ UNCHANGED guiVars

\* mutant of PassOutcome: the except block's return False is lost
PassOutcomeStatusOnly(rc, pend) == IF rc # 0 THEN "false" ELSE "true"

\* the value the pass returns once the encoder's status is known: return False
\* of the finally block (284-292), else the except block's pending return
\* False (274), else return True (300)
PassOutcome(rc, pend) ==
    IF rc # 0 THEN "false" ELSE IF pend = "false" THEN "false" ELSE "true"

\* lines 275-300: the finally block and the return after it
Finally ==
    /\ ppc = "finally"
    /\ open_handles' = ReleaseAll(open_handles, caps)
    /\ caps' = << >>
    /\ \E close \in {"ok", "raise"}, rc \in {0, 1} :
          IF close = "raise"
          THEN \* proc.stdin.close() raises when its flush fails: the pipe is
               \* closed all the same, the exception leaves the function
               \* before proc.communicate()
               /\ rc = 0
               /\ p_ret' = "raised"
               /\ stdin' = "closed"
               /\ UNCHANGED <<proc, returncode, fs, log>>
          ELSE /\ stdin' = "closed"
               /\ proc' = "exited"
               /\ returncode' = rc
               /\ fs' = (output_path :> EncodedFile([k \in 1..Len(written) |->
                                                        written[k].frame], rc = 0))
                        @@ fs
               /\ p_ret' = PassOutcome(rc, pending)
               /\ log' = IF rc # 0
                         THEN Say(p_cb, log, <<"ffmpeg_warning", "ffmpeg_stderr_tail">>)
                         ELSE IF pending = "false" THEN log
                         ELSE Say(p_cb, log, <<"saved">>)
    /\ ppc' = "ret"
    /\ UNCHANGED <<pc, result, temp_dir, intermediate_files, batch_idx, b_ret,
                   frames_written, spawned, p_infos, p_cb, frame_idx, written,
                   pending, output_path>>
    /\ UNCHANGED reqVars
    /\ UNCHANGED pipeVars
    /\ UNCHANGED guiVars

\* lines 150-153: the direct streaming pass returns to the request
StreamingReturn ==
    /\ pc = "streaming"
    /\ ppc = "ret"
    /\ result' = p_ret
    /\ pc' = "done"
    /\ ppc' = "idle"
    /\ UNCHANGED <<log, fs, temp_dir, intermediate_files, batch_idx, b_ret,
                   open_handles, frames_written, spawned, p_infos, p_cb, caps,
                   frame_idx, written, pending, p_ret, proc, stdin, returncode,
                   output_path>>
    /\ UNCHANGED reqVars
    /\ UNCHANGED pipeVars
    /\ UNCHANGED guiVars

\* --------------------------------------- _create_lighten_blend_video_batched
\* mutant of NumBatches: len(video_infos) // batch_size
NumBatchesFloor(n, batch_size) == n \div batch_size

\* (len(video_infos) + batch_size - 1) // batch_size
NumBatches(n, batch_size) == (n + batch_size - 1) \div batch_size

\* mutant of BatchInfos: every batch is cut from the start of the list
BatchInfosFromStart(infos, b, batch_size) ==
    SubSeq(infos, 1, Min2(batch_size, Len(infos)))

\* video_infos[start_idx:end_idx] of batch b
BatchInfos(infos, b, batch_size) ==
    LET start_idx == b * batch_size
        end_idx == Min2(start_idx + batch_size, Len(infos))
    IN  SubSeq(infos, start_idx + 1, end_idx)

\* lines 322-331: tempfile.mkdtemp
BatchedStart ==
    /\ pc = "batched"
    /\ temp_dir' = "exists"
    /\ intermediate_files' = << >>
    /\ batch_idx' = 0
    /\ pc' = "batch_loop"
    /\ UNCHANGED <<result, log, fs, b_ret, open_handles, frames_written, spawned>>
    /\ UNCHANGED passVars
    /\ UNCHANGED reqVars
    /\ UNCHANGED pipeVars
    /\ UNCHANGED guiVars

\* lines 333-349: one batch is handed to a streaming pass, without callback
BatchBegin ==
    /\ pc = "batch_loop"
    /\ batch_idx < NumBatches(Len(video_infos), max_concurrent_videos)
    /\ log' = log \o <<"batch_progress">>
    /\ intermediate_files' = Append(intermediate_files, TmpPath(batch_idx))
    /\ StartPass(BatchInfos(video_infos, batch_idx, max_concurrent_videos),
                 TmpPath(batch_idx), FALSE)
    /\ pc' = "batch_wait"
    /\ UNCHANGED <<result, fs, temp_dir, batch_idx, b_ret, open_handles,
                   frames_written, spawned>>
    /\ UNCHANGED reqVars
    /\ UNCHANGED pipeVars
    /\ UNCHANGED guiVars

\* mutant of LeaveTry: the cleanup follows the successful path only
LeaveTryOnSuccess(ret) == IF ret = "true" THEN "batched_finally" ELSE "done"

\* where control goes when the try block (329-382) is left with outcome ret,
\* by a return or by an exception: the finally block
LeaveTry(ret) == "batched_finally"

\* mutant of BatchOk: the outcome of the batch's pass is not looked at
BatchOkAlways(ret) == TRUE

\* if not success: ... return False; the loop goes on after a success only
BatchOk(ret) == ret = "true"

\* lines 351-357: the batch's pass returned
BatchReturn ==
    /\ pc = "batch_wait"
    /\ ppc = "ret"
    /\ ppc' = "idle"
    /\ IF BatchOk(p_ret)
       THEN /\ batch_idx' = batch_idx + 1
            /\ pc' = IF batch_idx + 1 <
                        NumBatches(Len(video_infos), max_concurrent_videos)
                     THEN "batch_loop" ELSE "final"
            /\ UNCHANGED <<log, b_ret>>
       ELSE /\ log' = IF p_ret = "false" THEN log \o <<"batch_failed">> ELSE log
            /\ b_ret' = p_ret
            /\ pc' = LeaveTry(p_ret)
            /\ UNCHANGED batch_idx
    /\ UNCHANGED <<result, fs, temp_dir, intermediate_files, open_handles,
                   frames_written, spawned, p_infos, p_cb, caps, frame_idx,
                   written, pending, p_ret, proc, stdin, returncode, output_path>>
    /\ UNCHANGED reqVars
    /\ UNCHANGED pipeVars
    /\ UNCHANGED guiVars

\* [info for info in (get_video_info(f) for f in files) if info is not None]
FinalInfos(files, fsys) ==
    SelectIdx([k \in 1..Len(files) |-> get_video_info(files[k], fsys)],
              [k \in 1..Len(files) |-> get_video_info(files[k], fsys).ok])

\* lines 359-374: a single intermediate is moved, several are merged
FinalMerge ==
    /\ pc = "final"
    /\ IF Len(intermediate_files) = 1
       THEN /\ fs' = [p \in (DOMAIN fs \ {intermediate_files[1]}) \cup {OutPath} |->
                        IF p = OutPath THEN fs[intermediate_files[1]] ELSE fs[p]]
            /\ log' = log \o <<"saved">>
            /\ b_ret' = "true"
            /\ pc' = LeaveTry("true")
            /\ UNCHANGED passVars
       ELSE /\ log' = log \o <<"final_merge">>
            /\ StartPass(FinalInfos(intermediate_files, fs), OutPath, TRUE)
            /\ pc' = "final_wait"
            /\ UNCHANGED <<fs, b_ret>>
    /\ UNCHANGED <<result, temp_dir, intermediate_files, batch_idx,
                   open_handles, frames_written, spawned>>
    /\ UNCHANGED reqVars
    /\ UNCHANGED pipeVars
    /\ UNCHANGED guiVars

\* lines 376-382: the final merge pass returned
FinalReturn ==
    /\ pc = "final_wait"
    /\ ppc = "ret"
    /\ ppc' = "idle"
    /\ b_ret' = p_ret
    /\ log' = IF p_ret = "true" THEN log \o <<"saved">> ELSE log
    /\ pc' = LeaveTry(p_ret)
    /\ UNCHANGED <<result, fs, temp_dir, intermediate_files, batch_idx,
                   open_handles, frames_written, spawned, p_infos, p_cb, caps,
                   frame_idx, written, pending, p_ret, proc, stdin, returncode,
                   output_path>>
    /\ UNCHANGED reqVars
    /\ UNCHANGED pipeVars
    /\ UNCHANGED guiVars

\* shutil.rmtree(temp_dir): the directory's files are gone
Rmtree(fsys) == [p \in {q \in DOMAIN fsys : q.kind # "tmp"} |-> fsys[p]]

\* lines 384-389: the finally block; a failure of rmtree is swallowed
BatchedFinally ==
    /\ pc = "batched_finally"
    /\ \E removed \in BOOLEAN :
          IF removed
          THEN /\ temp_dir' = "removed"
               /\ fs' = Rmtree(fs)
          ELSE /\ temp_dir' = "remove_failed"
               /\ UNCHANGED fs
    /\ result' = b_ret
    /\ pc' = "done"
    /\ UNCHANGED <<log, intermediate_files, batch_idx, b_ret, open_handles,
                   frames_written, spawned>>
    /\ UNCHANGED passVars
    /\ UNCHANGED reqVars
    /\ UNCHANGED pipeVars
    /\ UNCHANGED guiVars

\* --------------------------------------------------------- the video request
\* no encoder is attached
PipesIdle ==
    /\ stdin_pipe = 0
    /\ stderr_pipe = 0
    /\ enc = "none"
    /\ enc_todo = 0
    /\ sent = 0

\* the window as App.__init__ leaves it: no file listed, both buttons
\* disabled by update_button_state, no worker
GuiIdle ==
    /\ app_file_paths = << >>
    /\ btn_create_image = "disabled"
    /\ btn_create_video = "disabled"
    /\ progress = FALSE
    /\ running = 0
    /\ completions = 0

\* no image request is running
ImageIdle ==
    /\ file_paths = << >>
    /\ all_files = << >>
    /\ file_idx = 0
    /\ composite = NoFrame
    /\ processed = 0
    /\ save = "none"
    /\ image_out = NoFrame

Init ==
    /\ video_paths \in SeqsUpTo(VideoFileIds, MaxSources)
    /\ pc = "probe"
    /\ ImageIdle
    /\ GuiIdle
    /\ PipesIdle
    /\ output_path = OutPath
    /\ result = "none"
    /\ log = << >>
    /\ video_infos = << >>
    /\ max_frames = 0
    /\ base_width = 0
    /\ base_height = 0
    /\ max_concurrent_videos = 0
    /\ fs = << >>
    /\ temp_dir = "none"
    /\ intermediate_files = << >>
    /\ batch_idx = 0
    /\ b_ret = "none"
    /\ ppc = "idle"
    /\ p_infos = << >>
    /\ p_cb = FALSE
    /\ caps = << >>
    /\ frame_idx = 0
    /\ written = << >>
    /\ pending = "none"
    /\ p_ret = "none"
    /\ proc = "none"
    /\ stdin = "none"
    /\ returncode = 0
    /\ open_handles = 0
    /\ frames_written = 0
    /\ spawned = 0

Next ==
    \/ Probe
    \/ Dispatch
    \/ OpenCaps
    \/ LocateFfmpeg
    \/ SpawnEncoder
    \/ ProcessFrame
    \/ Finally
    \/ StreamingReturn
    \/ BatchedStart
    \/ BatchBegin
    \/ BatchReturn
    \/ FinalMerge
    \/ FinalReturn
    \/ BatchedFinally

Spec == Init /\ [][Next]_vars

\* ------------------------------------------------- create_lighten_blend_image
\* The paths an image request can name.  is_image: the extension is one of
\* image_ext; decodes: cv2.imread returns an array / cv2.VideoCapture opens;
\* raises: resizing or converting the decoded frame raises; members: what
\* collect_files_from_folder returns for a folder.
ImagePath(id) ==
    CASE id = 1 -> [is_file |-> TRUE, is_dir |-> FALSE, is_image |-> TRUE, decodes |-> TRUE,
                    raises |-> FALSE, width |-> 2, height |-> 2,
                    frames |-> <<(<<0, 0, 255>>)>>, members |-> << >>]
      [] id = 2 -> [is_file |-> TRUE, is_dir |-> FALSE, is_image |-> TRUE, decodes |-> TRUE,
                    raises |-> FALSE, width |-> 2, height |-> 2,
                    frames |-> <<(<<0, 255, 0>>)>>, members |-> << >>]
      [] id = 3 -> [is_file |-> TRUE, is_dir |-> FALSE, is_image |-> TRUE, decodes |-> TRUE,
                    raises |-> FALSE, width |-> 2, height |-> 2,
                    frames |-> <<(<<255, 0, 0>>)>>, members |-> << >>]
      [] id = 4 -> [is_file |-> TRUE, is_dir |-> FALSE, is_image |-> TRUE, decodes |-> FALSE,
                    raises |-> FALSE, width |-> 0, height |-> 0,
                    frames |-> << >>, members |-> << >>]
      [] id = 5 -> [is_file |-> TRUE, is_dir |-> FALSE, is_image |-> TRUE, decodes |-> TRUE,
                    raises |-> FALSE, width |-> 4, height |-> 4,
                    frames |-> <<(<<128, 128, 128>>)>>, members |-> << >>]
      [] id = 6 -> [is_file |-> TRUE, is_dir |-> FALSE, is_image |-> FALSE, decodes |-> TRUE,
                    raises |-> FALSE, width |-> 2, height |-> 2,
                    frames |-> <<(<<64, 0, 0>>), (<<0, 64, 0>>)>>, members |-> << >>]
      [] id = 7 -> [is_file |-> TRUE, is_dir |-> FALSE, is_image |-> FALSE, decodes |-> FALSE,
                    raises |-> FALSE, width |-> 0, height |-> 0,
                    frames |-> << >>, members |-> << >>]
      [] id = 8 -> [is_file |-> FALSE, is_dir |-> FALSE, is_image |-> TRUE, decodes |-> FALSE,
                    raises |-> FALSE, width |-> 0, height |-> 0,
                    frames |-> << >>, members |-> << >>]
      [] id = 9 -> [is_file |-> FALSE, is_dir |-> TRUE, is_image |-> FALSE, decodes |-> FALSE,
                    raises |-> FALSE, width |-> 0, height |-> 0,
                    frames |-> << >>, members |-> <<2, 4>>]
      [] OTHER  -> [is_file |-> TRUE, is_dir |-> FALSE, is_image |-> TRUE, decodes |-> TRUE,
                    raises |-> TRUE, width |-> 4, height |-> 2,
                    frames |-> <<(<<0, 0, 64>>)>>, members |-> << >>]
ImagePathIds == 1..10

RECURSIVE ExpandPaths(_)
\* lines 189-196: folders are expanded, files kept, anything else dropped
ExpandPaths(paths) ==
    IF paths = << >> THEN << >>
    ELSE (IF ImagePath(paths[1]).is_dir THEN ImagePath(paths[1]).members
          ELSE IF ImagePath(paths[1]).is_file THEN <<paths[1]>>
          ELSE << >>)
         \o ExpandPaths(Tail(paths))

\* frame k of a file as decoded (cv2.imread, cap.read)
Decoded(id, k) ==
    Frame(ImagePath(id).width, ImagePath(id).height, ImagePath(id).frames[k])

\* lines 210-213: cv2.imread(first_file) or get_frame_from_video(first_file);
\* NoFrame stands for None
FirstFrame(id) ==
    IF ImagePath(id).decodes /\ ImagePath(id).frames # << >>
    THEN Decoded(id, 1) ELSE NoFrame

\* mutant of FirstFrameOk: the check of the first frame is missing
FirstFrameUnchecked(first_frame) == TRUE

\* lines 215-218: the request goes on only with a first frame
FirstFrameOk(first_frame) == first_frame # NoFrame

\* frame.astype(np.float32): exact for the values of a uint8 frame
AsFloat32(frame) == frame

\* np.clip(composite, 0, 255).astype(np.uint8)
ClipToUint8(frame) ==
    [frame EXCEPT !.px = [c \in 1..3 |-> Min2(Max2(frame.px[c], 0), 255)]]

RECURSIVE MergeFrames(_, _, _, _, _)
\* np.maximum(composite, frame.astype(np.float32), out=composite) for the
\* frames k.. of file id, each resized to the base shape when it differs
MergeFrames(acc, id, k, bw, bh) ==
    IF k > Len(ImagePath(id).frames) THEN acc
    ELSE MergeFrames(Maximum(acc, AsFloat32(Fit(Decoded(id, k), bw, bh))),
                     id, k + 1, bw, bh)

\* lines 183-237: the list is expanded, the first file gives the resolution,
\* the accumulator starts black
ImgStart ==
    /\ pc = "img_start"
    /\ LET files == ExpandPaths(file_paths)
           first_frame == FirstFrame(files[1])
       IN  IF file_paths = << >>
           THEN /\ log' = log \o <<"no_files">>
                /\ result' = "false"
                /\ pc' = "done"
                /\ UNCHANGED <<all_files, base_width, base_height, composite, file_idx>>
           ELSE IF files = << >>
           THEN /\ log' = log \o <<"no_valid_files">>
                /\ result' = "false"
                /\ pc' = "done"
                /\ all_files' = files
                /\ UNCHANGED <<base_width, base_height, composite, file_idx>>
           ELSE IF ~FirstFrameOk(first_frame)
           THEN /\ log' = log \o <<"total", "first_unreadable">>
                /\ result' = "false"
                /\ pc' = "done"
                /\ all_files' = files
                /\ UNCHANGED <<base_width, base_height, composite, file_idx>>
           ELSE /\ log' = log \o <<"total", "resolution">>
                /\ result' = result
                /\ pc' = "img_loop"
                /\ all_files' = files
                /\ base_width' = first_frame.w
                /\ base_height' = first_frame.h
                /\ composite' = AsFloat32(Zeros(first_frame.w, first_frame.h))
                /\ file_idx' = 1
    /\ UNCHANGED <<file_paths, processed, save, image_out>>
    /\ UNCHANGED <<video_paths, video_infos, max_frames, max_concurrent_videos,
                   fs, temp_dir, intermediate_files, batch_idx, b_ret,
                   open_handles, frames_written, spawned>>
    /\ UNCHANGED passVars
    /\ UNCHANGED pipeVars
    /\ UNCHANGED guiVars

\* lines 239-299: one iteration of the loop over all_files
ImgFile ==
    /\ pc = "img_loop"
    /\ LET id == all_files[file_idx]
           file == ImagePath(id)
           merged == MergeFrames(composite, id, 1, base_width, base_height)
           tick == IF file_idx % 10 = 0 THEN <<"progress">> ELSE << >>
       IN  IF file.decodes /\ (file.raises \/ merged = ShapeError)
           THEN \* the except block: warning, continue
                /\ log' = log \o <<"warn_file_error">>
                /\ UNCHANGED <<composite, processed>>
           ELSE IF file.decodes
           THEN /\ composite' = merged
                /\ processed' = processed + 1
                /\ log' = log \o (IF ~file.is_image /\ Len(file.frames) > 0
                                  THEN <<"video_done">> ELSE << >>) \o tick
           ELSE /\ log' = log \o tick
                /\ UNCHANGED <<composite, processed>>
    /\ file_idx' = file_idx + 1
    /\ pc' = IF file_idx + 1 > Len(all_files) THEN "img_save" ELSE "img_loop"
    /\ UNCHANGED <<result, file_paths, all_files, base_width, base_height, save,
                   image_out>>
    /\ UNCHANGED <<video_paths, video_infos, max_frames, max_concurrent_videos,
                   fs, temp_dir, intermediate_files, batch_idx, b_ret,
                   open_handles, frames_written, spawned>>
    /\ UNCHANGED passVars
    /\ UNCHANGED pipeVars
    /\ UNCHANGED guiVars

\* lines 301-314: clip, narrow, cv2.imwrite; imwrite writes the file, or
\* returns False without writing, or raises
ImgSave ==
    /\ pc = "img_save"
    /\ \E outcome \in {"written", "returned_false", "raised"} :
          /\ save' = outcome
          /\ image_out' = IF outcome = "written" THEN ClipToUint8(composite)
                          ELSE image_out
          /\ log' = log \o <<IF outcome = "raised" THEN "save_error" ELSE "saved">>
          /\ result' = IF outcome = "raised" THEN "false" ELSE "true"
    /\ pc' = "done"
    /\ UNCHANGED <<file_paths, all_files, file_idx, composite, processed,
                   base_width, base_height>>
    /\ UNCHANGED <<video_paths, video_infos, max_frames, max_concurrent_videos,
                   fs, temp_dir, intermediate_files, batch_idx, b_ret,
                   open_handles, frames_written, spawned>>
    /\ UNCHANGED passVars
    /\ UNCHANGED pipeVars
    /\ UNCHANGED guiVars

\* no video request is running
VideoIdle ==
    /\ video_paths = << >>
    /\ output_path = OutPath
    /\ video_infos = << >>
    /\ max_frames = 0
    /\ max_concurrent_videos = 0
    /\ fs = << >>
    /\ temp_dir = "none"
    /\ intermediate_files = << >>
    /\ batch_idx = 0
    /\ b_ret = "none"
    /\ ppc = "idle"
    /\ p_infos = << >>
    /\ p_cb = FALSE
    /\ caps = << >>
    /\ frame_idx = 0
    /\ written = << >>
    /\ pending = "none"
    /\ p_ret = "none"
    /\ proc = "none"
    /\ stdin = "none"
    /\ returncode = 0
    /\ open_handles = 0
    /\ frames_written = 0
    /\ spawned = 0

InitImage ==
    /\ file_paths \in SeqsUpTo(ImagePathIds, MaxSources)
    /\ pc = "img_start"
    /\ VideoIdle
    /\ GuiIdle
    /\ PipesIdle
    /\ result = "none"
    /\ log = << >>
    /\ base_width = 0
    /\ base_height = 0
    /\ all_files = << >>
    /\ file_idx = 0
    /\ composite = NoFrame
    /\ processed = 0
    /\ save = "none"
    /\ image_out = NoFrame

NextImage ==
    \/ ImgStart
    \/ ImgFile
    \/ ImgSave

SpecImage == InitImage /\ [][NextImage]_vars

\* ------------------------------------------- the pass and its encoder's pipes
\* The streaming pass once more, from the moment Popen has returned, with the
\* two pipes of lines 205-208 made explicit: proc.stdin.write blocks while
\* the input pipe is full, the encoder blocks while its stderr pipe is full,
\* and stderr is read by proc.communicate() only.  Sizes are in chunks.

\* chunks of one frame (a frame is larger than the pipe)
FrameChunks == 2
\* capacity of the encoder's input pipe
StdinCapacity == 1
\* capacity of the encoder's stderr pipe
StderrCapacity == 2
\* most chunks of diagnostics the encoder writes in one go
MaxDiag == 3

\* the encoder as it goes on with d chunks of diagnostics to write
EncoderWith(d) == IF d > 0 THEN "logging" ELSE "reading"

\* the requests whose direct pass gets as far as a spawned encoder
ReachesEncoder(paths) ==
    LET infos == ProbeAll(paths, << >>)
    IN  /\ infos # << >>
        /\ Len(infos) <= ConcurrencyLimit(infos[1].width, infos[1].height)
        /\ OpenAll(infos, << >>) # << >>

\* lines 94-221 done for such a request: Popen has just returned, the
\* encoder starts with its banner
InitPipes ==
    /\ video_paths \in { paths \in SeqsUpTo(VideoFileIds, MaxSources) :
                           ReachesEncoder(paths) }
    /\ video_infos = ProbeAll(video_paths, << >>)
    /\ max_frames = MaxFrames(video_infos)
    /\ base_width = video_infos[1].width
    /\ base_height = video_infos[1].height
    /\ max_concurrent_videos = ConcurrencyLimit(base_width, base_height)
    /\ log = <<"probing">> \o ProbeWarnings(video_paths, << >>)
                 \o <<"settings", "memory">>
    /\ pc = "streaming"
    /\ result = "none"
    /\ ppc = "frames"
    /\ p_infos = video_infos
    /\ p_cb = TRUE
    /\ output_path = OutPath
    /\ caps = OpenAll(video_infos, << >>)
    /\ open_handles = Len(caps)
    /\ frame_idx = 0
    /\ written = << >>
    /\ pending = "none"
    /\ p_ret = "none"
    /\ proc = "running"
    /\ stdin = "open"
    /\ returncode = 0
    /\ spawned = 1
    /\ frames_written = 0
    /\ fs = (OutPath :> [frames |-> << >>, width |-> base_width,
                         height |-> base_height, complete |-> FALSE])
    /\ temp_dir = "none"
    /\ intermediate_files = << >>
    /\ batch_idx = 0
    /\ b_ret = "none"
    /\ ImageIdle
    /\ GuiIdle
    /\ stdin_pipe = 0
    /\ stderr_pipe = 0
    /\ sent = 0
    /\ enc_todo \in 0..MaxDiag
    /\ enc = EncoderWith(enc_todo)

\* lines 224-269: proc.stdin.write(composite_frame.tobytes()), one chunk of
\* it; the write goes on only while the pipe has room
WriteChunk ==
    /\ ppc = "frames"
    /\ enc \in {"logging", "reading"}
    /\ stdin_pipe < StdinCapacity
    /\ stdin_pipe' = stdin_pipe + 1
    /\ IF sent + 1 < FrameChunks
       THEN /\ sent' = sent + 1
            /\ UNCHANGED <<written, frames_written, caps, frame_idx, ppc, log>>
       ELSE /\ sent' = 0
            /\ written' = Append(written,
                                 [idx |-> frame_idx,
                                  frame |-> CompositeFrame(caps, frame_idx, fs,
                                                           base_width, base_height)])
            /\ frames_written' = frames_written + 1
            /\ caps' = Advance(caps, frame_idx, fs)
            /\ IF LastIndex(frame_idx, max_frames)
               THEN /\ ppc' = "finally"
                    /\ frame_idx' = frame_idx
                    /\ log' = Say(p_cb, log,
                                  (IF frame_idx % 30 = 0
                                   THEN <<"progress">> ELSE << >>)
                                  \o <<"encode_done">>)
               ELSE /\ ppc' = "frames"
                    /\ frame_idx' = frame_idx + 1
                    /\ log' = Say(p_cb, log,
                                  IF frame_idx % 30 = 0
                                  THEN <<"progress">> ELSE << >>)
    /\ UNCHANGED <<pc, result, fs, temp_dir, intermediate_files, batch_idx,
                   b_ret, open_handles, spawned, p_infos, p_cb, pending, p_ret,
                   proc, stdin, returncode, output_path, stderr_pipe, enc,
                   enc_todo>>
    /\ UNCHANGED reqVars
    /\ UNCHANGED guiVars

\* lines 271-274: the encoder is gone, the write raises BrokenPipeError
WriteBroken ==
    /\ ppc = "frames"
    /\ enc \in {"done", "failed"}
    /\ log' = Say(p_cb, log, <<"frame_error">>)
    /\ pending' = "false"
    /\ ppc' = "finally"
    /\ UNCHANGED <<pc, result, fs, temp_dir, intermediate_files, batch_idx,
                   b_ret, open_handles, frames_written, spawned, p_infos, p_cb,
                   caps, frame_idx, written, p_ret, proc, stdin, returncode,
                   output_path>>
    /\ UNCHANGED pipeVars
    /\ UNCHANGED reqVars
    /\ UNCHANGED guiVars

\* lines 276-281: the captures are released and proc.stdin is closed; with
\* the encoder gone the close may raise, and the exception leaves the
\* function before proc.communicate()
CloseStdin ==
    /\ ppc = "finally"
    /\ open_handles' = ReleaseAll(open_handles, caps)
    /\ caps' = << >>
    /\ stdin' = "closed"
    /\ \E close \in {"ok", "raise"} :
          IF close = "raise"
          THEN /\ enc = "failed"
               /\ p_ret' = "raised"
               /\ ppc' = "ret"
          ELSE /\ p_ret' = p_ret
               /\ ppc' = "communicate"
    /\ UNCHANGED <<pc, result, log, fs, temp_dir, intermediate_files, batch_idx,
                   b_ret, frames_written, spawned, p_infos, p_cb, frame_idx,
                   written, pending, proc, returncode, output_path>>
    /\ UNCHANGED pipeVars
    /\ UNCHANGED reqVars
    /\ UNCHANGED guiVars

\* line 283: proc.communicate() reads what is in the stderr pipe
Drain ==
    /\ ppc = "communicate"
    /\ stderr_pipe > 0
    /\ stderr_pipe' = 0
    /\ UNCHANGED <<pc, result, log, fs, temp_dir, intermediate_files, batch_idx,
                   b_ret, open_handles, frames_written, spawned, stdin_pipe,
                   enc, enc_todo, sent>>
    /\ UNCHANGED passVars
    /\ UNCHANGED reqVars
    /\ UNCHANGED guiVars

\* lines 283-300: communicate() returns once stderr is at its end and the
\* encoder has exited; the status decides the outcome
Reap ==
    /\ ppc = "communicate"
    /\ enc \in {"done", "failed"}
    /\ stderr_pipe = 0
    /\ LET rc == IF enc = "done" THEN 0 ELSE 1
       IN  /\ proc' = "exited"
           /\ returncode' = rc
           /\ fs' = (output_path :> EncodedFile([k \in 1..Len(written) |->
                                                    written[k].frame], rc = 0))
                    @@ fs
           /\ p_ret' = PassOutcome(rc, pending)
           /\ log' = IF rc # 0
                     THEN Say(p_cb, log, <<"ffmpeg_warning", "ffmpeg_stderr_tail">>)
                     ELSE IF pending = "false" THEN log
                     ELSE Say(p_cb, log, <<"saved">>)
    /\ ppc' = "ret"
    /\ UNCHANGED <<pc, result, temp_dir, intermediate_files, batch_idx, b_ret,
                   open_handles, frames_written, spawned, p_infos, p_cb, caps,
                   frame_idx, written, pending, stdin, output_path>>
    /\ UNCHANGED pipeVars
    /\ UNCHANGED reqVars
    /\ UNCHANGED guiVars

\* the encoder writes one chunk of diagnostics to stderr, when there is room
EncLog ==
    /\ enc = "logging"
    /\ stderr_pipe < StderrCapacity
    /\ stderr_pipe' = stderr_pipe + 1
    /\ enc_todo' = enc_todo - 1
    /\ enc' = EncoderWith(enc_todo')
    /\ UNCHANGED <<pc, result, log, fs, temp_dir, intermediate_files, batch_idx,
                   b_ret, open_handles, frames_written, spawned, stdin_pipe, sent>>
    /\ UNCHANGED passVars
    /\ UNCHANGED reqVars
    /\ UNCHANGED guiVars

\* the encoder takes one chunk from its input; it goes on with some
\* diagnostics to write, or fails
EncRead ==
    /\ enc = "reading"
    /\ stdin_pipe > 0
    /\ stdin_pipe' = stdin_pipe - 1
    /\ \E d \in 0..MaxDiag, ok \in BOOLEAN :
          IF ok
          THEN /\ enc_todo' = d
               /\ enc' = EncoderWith(d)
          ELSE /\ d = 0
               /\ enc_todo' = 0
               /\ enc' = "failed"
    /\ UNCHANGED <<pc, result, log, fs, temp_dir, intermediate_files, batch_idx,
                   b_ret, open_handles, frames_written, spawned, stderr_pipe, sent>>
    /\ UNCHANGED passVars
    /\ UNCHANGED reqVars
    /\ UNCHANGED guiVars

\* the encoder finds its input at the end and exits
EncEof ==
    /\ enc = "reading"
    /\ stdin_pipe = 0
    /\ stdin = "closed"
    /\ \E ok \in BOOLEAN : enc' = IF ok THEN "done" ELSE "failed"
    /\ UNCHANGED <<pc, result, log, fs, temp_dir, intermediate_files, batch_idx,
                   b_ret, open_handles, frames_written, spawned, stdin_pipe,
                   stderr_pipe, enc_todo, sent>>
    /\ UNCHANGED passVars
    /\ UNCHANGED reqVars
    /\ UNCHANGED guiVars

NextPipes ==
    \/ WriteChunk
    \/ WriteBroken
    \/ CloseStdin
    \/ Drain
    \/ Reap
    \/ EncLog
    \/ EncRead
    \/ EncEof
    \/ StreamingReturn

SpecPipes == InitPipes /\ [][NextPipes]_vars

\* ------------------------------------------------------------ both requests
\* the tool serves either request: a run is one video request or one image
\* request
InitRequests == Init \/ InitImage

NextRequests == Next \/ NextImage

SpecRequests == InitRequests /\ [][NextRequests]_vars

\* ------------------------------------------------------------- the window
\* App of main.py.  Tk runs every handler and every self.after callback on
\* the main thread, one at a time: a handler is one step.  A compositing
\* request runs on a worker thread of its own; here it is the thread only,
\* from its start to the moment it queues on_complete.  The paths are those
\* of ImagePath; a video is a file that is not an image.  The log widget is
\* left out: no handler reads it.

\* most files in the list
MaxListed == 3
\* most worker threads started and not yet completed
MaxWorkers == 2

\* everything outside the window
workerVars == <<pc, result, log, fs, temp_dir, intermediate_files, batch_idx,
                b_ret, open_handles, frames_written, spawned, passVars,
                reqVars, pipeVars>>

\* path in self.file_paths
Listed(files, path) == \E k \in 1..Len(files) : files[k] = path

RECURSIVE AppendNew(_, _)
\* for path in paths: if path not in self.file_paths: append
AppendNew(files, paths) ==
    IF paths = << >> THEN files
    ELSE AppendNew(IF Listed(files, paths[1]) THEN files
                   ELSE Append(files, paths[1]),
                   Tail(paths))

\* Path(f).suffix.lower() in video_ext
IsVideoFile(id) == ImagePath(id).is_file /\ ~ImagePath(id).is_image

\* sum(1 for f in self.file_paths if Path(f).suffix.lower() in video_ext)
VideoCount(files) == Cardinality({ k \in 1..Len(files) : IsVideoFile(files[k]) })

\* update_button_state: the image button
ImageButton(files) == IF Len(files) >= 2 THEN "normal" ELSE "disabled"

\* update_button_state: the video button
VideoButton(files) == IF VideoCount(files) >= 2 THEN "normal" ELSE "disabled"

\* self.update_button_state()
UpdateButtonState(files) ==
    /\ btn_create_image' = ImageButton(files)
    /\ btn_create_video' = VideoButton(files)

\* what a drop of one path adds: the file, or the files of the folder
Dropped(id) ==
    IF ImagePath(id).is_file THEN <<id>>
    ELSE IF ImagePath(id).is_dir THEN ImagePath(id).members
    ELSE << >>

\* lines 156-186: on_drop
OnDrop ==
    /\ \E id \in ImagePathIds :
          /\ app_file_paths' = AppendNew(app_file_paths, Dropped(id))
          /\ Len(app_file_paths') <= MaxListed
    /\ UpdateButtonState(app_file_paths')
    /\ UNCHANGED <<progress, running, completions>>
    /\ UNCHANGED workerVars

\* lines 188-210: add_files_dialog; the dialog returns files, or nothing
AddFilesDialog ==
    /\ \E chosen \in SeqsUpTo({ id \in ImagePathIds : ImagePath(id).is_file }, 1) :
          /\ app_file_paths' = AppendNew(app_file_paths, chosen)
          /\ Len(app_file_paths') <= MaxListed
    /\ UpdateButtonState(app_file_paths')
    /\ UNCHANGED <<progress, running, completions>>
    /\ UNCHANGED workerVars

\* del self.file_paths[index]
DeleteAt(files, index) ==
    [k \in 1..(Len(files) - 1) |-> IF k < index THEN files[k] ELSE files[k + 1]]

\* lines 212-217: remove_at, from the button of a listed file
RemoveAt ==
    /\ \E index \in 1..Len(app_file_paths) :
          app_file_paths' = DeleteAt(app_file_paths, index)
    /\ UpdateButtonState(app_file_paths')
    /\ UNCHANGED <<progress, running, completions>>
    /\ UNCHANGED workerVars

\* lines 219-227: remove_all, after the question was answered
RemoveAll ==
    /\ \E yes \in BOOLEAN :
          IF app_file_paths # << >> /\ yes
          THEN /\ app_file_paths' = << >>
               /\ UpdateButtonState(<< >>)
          ELSE UNCHANGED <<app_file_paths, btn_create_image, btn_create_video>>
    /\ UNCHANGED <<progress, running, completions>>
    /\ UNCHANGED workerVars

\* lines 274-298 and 324-348: the request is started: progress bar, both
\* buttons disabled, the worker thread
StartWorker ==
    /\ progress' = TRUE
    /\ btn_create_image' = "disabled"
    /\ btn_create_video' = "disabled"
    /\ running' = running + 1

\* lines 254-298: create_image, the command of the image button; a
\* disabled button does not call it
CreateImage ==
    /\ btn_create_image = "normal"
    /\ running + completions < MaxWorkers
    /\ \E output_chosen \in BOOLEAN :
          IF Len(app_file_paths) >= 2 /\ output_chosen
          THEN StartWorker
          ELSE UNCHANGED <<progress, btn_create_image, btn_create_video, running>>
    /\ UNCHANGED <<app_file_paths, completions>>
    /\ UNCHANGED workerVars

\* lines 300-348: create_video, the command of the video button
CreateVideo ==
    /\ btn_create_video = "normal"
    /\ running + completions < MaxWorkers
    /\ \E output_chosen \in BOOLEAN :
          IF VideoCount(app_file_paths) >= 2 /\ output_chosen
          THEN StartWorker
          ELSE UNCHANGED <<progress, btn_create_image, btn_create_video, running>>
    /\ UNCHANGED <<app_file_paths, completions>>
    /\ UNCHANGED workerVars

\* lines 279-296, 329-346: run_task: the request returned on the worker
\* thread, which queues on_complete
RunTaskReturns ==
    /\ running > 0
    /\ running' = running - 1
    /\ completions' = completions + 1
    /\ UNCHANGED <<app_file_paths, btn_create_image, btn_create_video, progress>>
    /\ UNCHANGED workerVars

\* lines 286-294, 336-344: on_complete, on the main thread
OnComplete ==
    /\ completions > 0
    /\ completions' = completions - 1
    /\ progress' = FALSE
    /\ UpdateButtonState(app_file_paths)
    /\ UNCHANGED <<app_file_paths, running>>
    /\ UNCHANGED workerVars

\* lines 36-47: App.__init__
InitGui ==
    /\ GuiIdle
    /\ VideoIdle
    /\ ImageIdle
    /\ PipesIdle
    /\ pc = "idle"
    /\ result = "none"
    /\ log = << >>
    /\ base_width = 0
    /\ base_height = 0

NextGui ==
    \/ OnDrop
    \/ AddFilesDialog
    \/ RemoveAt
    \/ RemoveAll
    \/ CreateImage
    \/ CreateVideo
    \/ RunTaskReturns
    \/ OnComplete

SpecGui == InitGui /\ [][NextGui]_vars

\* ================================================================== claims
\* the largest element of a finite set of numbers, 0 for the empty set
SetMax(S) == IF S = {} THEN 0 ELSE CHOOSE x \in S : \A y \in S : y <= x

Range(f) == { f[x] : x \in DOMAIN f }

\* a streaming pass is running or has just returned
PassLive == ppc \in {"frames", "finally", "ret"}

\* the longest frame_count among the request's probed sources
LongestProbed ==
    SetMax({ video_infos[k].frame_count : k \in 1..Len(video_infos) })

\* C1: the frames a streaming pass writes to the encoder carry the output
\* indexes 0, 1, 2, ... in order with none skipped or repeated, and a pass
\* that returns success has written exactly max_frames of them, max_frames
\* being the largest frame_count among the probed sources.
C1_FramesInOrder ==
    PassLive =>
        /\ \A k \in 1..Len(written) : written[k].idx = k - 1
        /\ Len(written) <= LongestProbed
        /\ (ppc = "ret" /\ p_ret = "true") => Len(written) = LongestProbed

\* C1 witness: a direct pass over two sources of different length returned
\* success with two frames written.
C1_Witness ==
    /\ pc = "streaming"
    /\ ppc = "ret"
    /\ p_ret = "true"
    /\ Len(p_infos) = 2
    /\ p_infos[1].frame_count # p_infos[2].frame_count
    /\ Len(written) = 2

\* the sources of the running pass counted active at index i by frame_count
ActiveByCount(i) == { j \in 1..Len(p_infos) : p_infos[j].frame_count > i }

\* the sources of the running pass that deliver a frame at index i: opened,
\* frame_count > i, and the read at index i returns a frame
Contributors(i) ==
    { j \in 1..Len(p_infos) :
        /\ Opens(p_infos[j].path, fs)
        /\ p_infos[j].frame_count > i
        /\ i < Len(Footage(p_infos[j].path, fs)) }

\* channel c of frame i of source j of the running pass
ChannelOf(j, i, c) == Footage(p_infos[j].path, fs)[i + 1].px[c]

\* C2 as claimed: every frame written equals the per-channel maximum of
\* frame i of exactly the sources whose frame_count > i (black when there
\* is none).
C2_AsClaimed ==
    PassLive =>
        \A k \in 1..Len(written) :
            /\ \A j \in ActiveByCount(k - 1) :
                   k - 1 < Len(Footage(p_infos[j].path, fs))
            /\ \A c \in 1..3 :
                   written[k].frame.px[c] =
                       SetMax({ ChannelOf(j, k - 1, c) : j \in ActiveByCount(k - 1) })

\* C2 (amended): every frame written has the base shape and equals the
\* per-channel maximum of frame i of exactly the sources that were opened,
\* have frame_count > i and deliver a frame at index i, nothing carried over
\* from earlier indexes; with one such source it is that source's frame,
\* with none it is black.
C2_CompositeOfContributors ==
    PassLive =>
        \A k \in 1..Len(written) :
            /\ written[k].frame.w = base_width
            /\ written[k].frame.h = base_height
            /\ \A c \in 1..3 :
                   written[k].frame.px[c] =
                       SetMax({ ChannelOf(j, k - 1, c) : j \in Contributors(k - 1) })

\* C2 witness: a direct pass wrote the blend of two sources at index 0 and the
\* one remaining source's frame, unchanged, at index 1.
C2_Witness ==
    /\ pc = "streaming"
    /\ ppc = "ret"
    /\ p_ret = "true"
    /\ Len(written) = 2
    /\ Cardinality(Contributors(0)) = 2
    /\ Cardinality(Contributors(1)) = 1
    /\ written[1].frame.px = <<128, 255, 0>>
    /\ written[2].frame.px = <<0, 0, 128>>

RECURSIVE RunFrames(_, _, _, _, _, _)
\* the frames one streaming pass over captures cs writes from index idx on
RunFrames(cs, idx, n, fsys, bw, bh) ==
    IF idx >= n THEN << >>
    ELSE <<CompositeFrame(cs, idx, fsys, bw, bh)>>
         \o RunFrames(Advance(cs, idx, fsys), idx + 1, n, fsys, bw, bh)

\* what one unbatched streaming pass over all probed sources writes
UnbatchedFrames ==
    RunFrames(OpenAll(video_infos, fs), 0, max_frames, fs, base_width, base_height)

C6_EncoderUnavailable ==
    /\ proc \in {"missing", "unspawnable"} =>
          /\ ppc \in {"ret", "idle"}
          /\ p_ret = "false"
          /\ written = << >>
          /\ output_path \notin DOMAIN fs
          /\ OutPath \notin DOMAIN fs
          /\ pc = "done" => result = "false"
    /\ spawned = 0 => (frames_written = 0 /\ DOMAIN fs = {})

\* C6 witness: a batched request ended on the first batch with no encoder
\* located or spawned.
C6_Witness ==
    /\ pc = "done"
    /\ proc \in {"missing", "unspawnable"}
    /\ temp_dir # "none"
    /\ spawned = 0
    /\ result = "false"

\* C7 as claimed: when a streaming pass returns, every capture it opened has
\* been released.
C7_HandlesReleased ==
    ppc = "ret" => open_handles = 0

\* C8 as claimed: the number of captures open at once never exceeds the
\* concurrency limit.
C8_OpenWithinLimit ==
    pc \notin {"probe", "dispatch"} => open_handles <= max_concurrent_videos

\* C9 as claimed: once the temporary directory was created, it and the
\* intermediate files are gone when the batched function has returned.
C9_AsClaimed ==
    (pc = "done" /\ temp_dir # "none") =>
        /\ temp_dir = "removed"
        /\ \A p \in DOMAIN fs : p.kind # "tmp"

\* C9 (amended): once the temporary directory was created, shutil.rmtree has
\* been called on it when the batched function has returned, on success, on
\* failure and on an exception alike; the directory and the intermediate
\* files are gone unless rmtree itself failed.
C9_CleanupAttempted ==
    (pc = "done" /\ temp_dir # "none") =>
        /\ temp_dir \in {"removed", "remove_failed"}
        /\ temp_dir = "removed" => \A p \in DOMAIN fs : p.kind # "tmp"

\* C9 witness: the second batch's pass left by an exception and the directory
\* was removed.
C9_Witness ==
    /\ pc = "done"
    /\ temp_dir = "removed"
    /\ result = "raised"
    /\ batch_idx = 1

\* C10 as claimed: when an encoder exited with a non-zero status the request
\* returns failure and the tail of the encoder's diagnostic text is in the
\* request's log.
C10_DiagnosticsDelivered ==
    (pc = "done" /\ proc = "exited" /\ returncode # 0) =>
        /\ result = "false"
        /\ \E k \in 1..Len(log) : log[k] = "ffmpeg_stderr_tail"

\* is id a still that is read and merged without error
ReadableStill(id) ==
    /\ ImagePath(id).is_file
    /\ ImagePath(id).is_image
    /\ ImagePath(id).decodes
    /\ ~ImagePath(id).raises

\* the per-channel maximum over a set of stills
MaxOfStills(ids) ==
    [c \in 1..3 |-> SetMax({ ImagePath(id).frames[1][c] : id \in ids })]

\* the input list holds readable stills only, all of one resolution
EqualStills ==
    /\ file_paths # << >>
    /\ \A k \in 1..Len(file_paths) :
          /\ ReadableStill(file_paths[k])
          /\ ImagePath(file_paths[k]).width = ImagePath(file_paths[1]).width
          /\ ImagePath(file_paths[k]).height = ImagePath(file_paths[1]).height

\* C4: for equal-resolution readable stills the image written is a function
\* of the set of inputs alone: each channel is the maximum of that channel
\* over the set, whatever the order of the list and however often a still
\* is listed; the request returns success unless the writer raises.
C4_MaxOfInputSet ==
    (pc = "done" /\ EqualStills) =>
        /\ save # "none"
        /\ result = (IF save = "raised" THEN "false" ELSE "true")
        /\ save = "written" =>
              /\ image_out.px = MaxOfStills(Range(file_paths))
              /\ image_out.w = ImagePath(file_paths[1]).width
              /\ image_out.h = ImagePath(file_paths[1]).height

\* C4 witness: blue, then red and green stills in some order gave all-white.
C4_Witness ==
    /\ pc = "done"
    /\ EqualStills
    /\ Range(file_paths) = {1, 2, 3}
    /\ file_paths[1] = 3
    /\ save = "written"
    /\ image_out = Frame(2, 2, <<255, 255, 255>>)

\* the input list is one unreadable image and two readable stills
OneUnreadableTwoValid ==
    /\ Len(file_paths) = 3
    /\ \E u \in 1..3 :
          /\ file_paths[u] = 4
          /\ \A k \in (1..3) \ {u} : ReadableStill(file_paths[k])

\* the two readable stills of such a list
ValidOnes == { file_paths[k] : k \in { j \in 1..3 : file_paths[j] # 4 } }

\* C5 as claimed: wherever the unreadable path stands in the list, first
\* included, the request succeeds with the composite of the two valid
\* images.
C5_AsClaimed ==
    (pc = "done" /\ OneUnreadableTwoValid /\ save # "raised") =>
        /\ result = "true"
        /\ save = "written" => image_out.px = MaxOfStills(ValidOnes)

\* C5 (amended): when the unreadable path is not the first of the list it is
\* skipped and the request succeeds with the composite of the two valid
\* images, in the resolution of the first; when it is the first, the request
\* fails at once and writes nothing.
C5_SkippedUnlessFirst ==
    (pc = "done" /\ OneUnreadableTwoValid) =>
        IF file_paths[1] = 4
        THEN /\ result = "false"
             /\ save = "none"
             /\ image_out = NoFrame
             /\ processed = 0
        ELSE /\ save # "none"
             /\ result = (IF save = "raised" THEN "false" ELSE "true")
             /\ processed = 2
             /\ save = "written" =>
                   /\ image_out.px = MaxOfStills(ValidOnes)
                   /\ image_out.w = ImagePath(file_paths[1]).width
                   /\ image_out.h = ImagePath(file_paths[1]).height

\* C5 witness: the unreadable path stood second; the two valid images of
\* different resolution were composited in the first one's resolution.
C5_Witness ==
    /\ pc = "done"
    /\ file_paths = <<1, 4, 5>>
    /\ result = "true"
    /\ save = "written"
    /\ image_out = Frame(2, 2, <<128, 128, 255>>)

\* the expanded list holds a source the loop can read and merge
SomeConsumable ==
    \E k \in 1..Len(all_files) :
        ImagePath(all_files[k]).decodes /\ ~ImagePath(all_files[k]).raises

\* C11 as claimed: the image request returns failure whenever the final
\* write fails, by an exception or by the writer's return value; it returns
\* success only when the output image was written; and it fails only when
\* no source is consumable or the final write failed.
C11_WriteFailureFails ==
    pc = "done" =>
        /\ save \in {"returned_false", "raised"} => result = "false"
        /\ result = "true" => (save = "written" /\ image_out # NoFrame)
        /\ result = "false" =>
              (save \in {"returned_false", "raised"} \/ ~SomeConsumable)

\* the listed paths that are neither a file nor a folder
NotOnDisk ==
    { k \in 1..Len(file_paths) :
        ~ImagePath(file_paths[k]).is_dir /\ ~ImagePath(file_paths[k]).is_file }

\* the entries of the expanded list that are not merged: the image does not
\* decode, the video does not open, or handling the file raises
NotMerged ==
    { k \in 1..Len(all_files) :
        ~ImagePath(all_files[k]).decodes \/ ImagePath(all_files[k]).raises }

\* the warnings delivered through the progress callback
Warnings == { k \in 1..Len(log) : log[k] = "warn_file_error" }

\* C12 as claimed: when the loop over the sources has run, every source that
\* could not be consumed (neither file nor folder, image that does not
\* decode, video that does not open) has produced a message of its own in
\* the log, and the remaining sources were processed up to the final write.
C12_UnconsumedLogged ==
    (pc = "done" /\ save # "none") =>
        /\ Cardinality(Warnings) >= Cardinality(NotOnDisk) + Cardinality(NotMerged)
        /\ processed = Len(all_files) - Cardinality(NotMerged)

\* create_lighten_blend_video has computed the base resolution and the limit
Dispatched == pc \notin {"probe", "dispatch"} /\ video_infos # << >>

\* frame_size of the base resolution
BaseFrameSize == base_width * base_height * 3

ImageRunning == pc \in {"img_loop", "img_save"} \/ (pc = "done" /\ save # "none")

\* C14: in both compositors the base width and height are those of the first
\* source (first probed source for video, first frame of the first file for
\* images) for the whole run; the accumulator, every frame written to an
\* encoder, every encoded file and the image written have exactly these
\* dimensions, whatever the dimensions of later sources.
C14_DimensionsFixed ==
    /\ Dispatched =>
          /\ base_width = video_infos[1].width
          /\ base_height = video_infos[1].height
          /\ \A k \in 1..Len(written) :
                written[k].frame.w = base_width /\ written[k].frame.h = base_height
          /\ \A p \in DOMAIN fs :
                /\ fs[p].width = base_width
                /\ fs[p].height = base_height
                /\ \A k \in 1..Len(fs[p].frames) :
                      /\ fs[p].frames[k].w = base_width
                      /\ fs[p].frames[k].h = base_height
    /\ ImageRunning =>
          /\ base_width = ImagePath(all_files[1]).width
          /\ base_height = ImagePath(all_files[1]).height
          /\ composite.w = base_width
          /\ composite.h = base_height
          /\ save = "written" =>
                (image_out.w = base_width /\ image_out.h = base_height)

\* C14 witness: a 10000x10000 source followed by a 9000x9000 one went through
\* two batches and the merge; the output is 10000x10000.
C14_Witness ==
    /\ pc = "done"
    /\ result = "true"
    /\ video_paths = <<1, 2>>
    /\ video_infos[2].width = 9000
    /\ fs[OutPath].width = 10000
    /\ fs[OutPath].height = 10000
    /\ Len(fs[OutPath].frames) = 2
    /\ fs[OutPath].frames[1].w = 10000

\* C14 witness for the image request: a 2x2 still followed by a 4x4 one gave
\* a 2x2 image.
C14_WitnessImage ==
    /\ pc = "done"
    /\ file_paths = <<1, 5>>
    /\ processed = 2
    /\ save = "written"
    /\ image_out.w = 2
    /\ image_out.h = 2

\* no listed path is a video that opens and has frame_count > 0
NoneProbeable ==
    \A k \in 1..Len(video_paths) :
        ~(VideoFile(video_paths[k]).probe /\ VideoFile(video_paths[k]).frame_count > 0)

\* C15: when no listed path can be probed as a video with frame_count > 0,
\* or the list is empty, the video request returns failure after one warning
\* per listed path, with no capture open, no temporary directory, no encoder
\* spawned and no file written.
C15_NoUsableSourceFails ==
    (pc # "probe" /\ NoneProbeable) =>
        /\ pc = "done"
        /\ result = "false"
        /\ log = (IF video_paths = << >> THEN <<"no_videos">>
                  ELSE <<"probing">>
                       \o [k \in 1..Len(video_paths) |-> "warn_unreadable"]
                       \o <<"no_valid">>)
        /\ open_handles = 0
        /\ caps = << >>
        /\ ppc = "idle"
        /\ temp_dir = "none"
        /\ spawned = 0
        /\ proc = "none"
        /\ frames_written = 0
        /\ DOMAIN fs = {}

\* C15 witness: a path that does not open and a video without frames were
\* listed; the request failed with two warnings.
C15_Witness ==
    /\ pc = "done"
    /\ video_paths = <<4, 7>>
    /\ result = "false"
    /\ log = <<"probing", "warn_unreadable", "warn_unreadable", "no_valid">>
    /\ spawned = 0

\* the pass is inside proc.stdin.write and the input pipe is full
WriterBlocked ==
    ppc = "frames" /\ enc \in {"logging", "reading"} /\ stdin_pipe = StdinCapacity

\* the encoder is inside a write to stderr and the stderr pipe is full
EncoderBlocked == enc = "logging" /\ stderr_pipe = StderrCapacity

\* C16 as claimed: a pass with a spawned encoder is never stuck: as long as
\* it has not returned, the pass and the encoder are not both blocked, the
\* one writing a frame to the full input pipe, the other writing diagnostics
\* to the full stderr pipe that is read only after the input is closed.
C16_NeverBothBlocked ==
    ppc \in {"frames", "finally", "communicate"} =>
        ~(WriterBlocked /\ EncoderBlocked)

\* C17: a streaming pass returns success only when all max_frames frames
\* were written without an exception, proc.stdin was closed and the encoder
\* exited with status 0; after an exception in the frame loop it returns
\* failure even when the encoder exits with status 0, and after a non-zero
\* exit status it returns failure even when every frame was written.
C17_SuccessOnlyWhenComplete ==
    ppc = "ret" =>
        /\ p_ret = "true" =>
              /\ Len(written) = max_frames
              /\ pending = "none"
              /\ stdin = "closed"
              /\ proc = "exited"
              /\ returncode = 0
        /\ (pending = "false" /\ proc = "exited" /\ returncode = 0) => p_ret = "false"
        /\ (proc = "exited" /\ returncode # 0) => p_ret = "false"

\* C17 witness: the second frame's write raised, the encoder then exited
\* with status 0, and the pass returned failure.
C17_Witness ==
    /\ ppc = "ret"
    /\ max_frames = 2
    /\ Len(written) = 1
    /\ pending = "false"
    /\ proc = "exited"
    /\ returncode = 0
    /\ p_ret = "false"

\* num_batches of the request
RequestBatches == NumBatches(Len(video_infos), max_concurrent_videos)

\* the batched function is leaving, or has left, with a batch not completed
BatchFailed ==
    /\ pc \in {"batched_finally", "done"}
    /\ temp_dir # "none"
    /\ batch_idx < RequestBatches

\* the batched function is leaving, or has left, after a final merge pass
\* that did not succeed
MergeFailed ==
    /\ pc \in {"batched_finally", "done"}
    /\ temp_dir # "none"
    /\ batch_idx = RequestBatches
    /\ output_path = OutPath
    /\ p_ret # "true"

\* C18: in the batched path a next batch or the final merge is begun only
\* after a batch whose pass succeeded; when a batch's pass fails, it is the
\* last pass of the request, no file exists at the requested output path,
\* and the request does not succeed: it returns failure when the pass
\* returned failure; likewise the request returns failure when the final
\* merge pass returned failure.
C18_FailedPassFailsRequest ==
    /\ (pc \in {"batch_loop", "final"} /\ batch_idx > 0) => p_ret = "true"
    /\ BatchFailed =>
          /\ p_ret \in {"false", "raised"}
          /\ b_ret = p_ret
          /\ output_path = TmpPath(batch_idx)
          /\ Len(intermediate_files) = batch_idx + 1
          /\ spawned <= batch_idx + 1
          /\ OutPath \notin DOMAIN fs
          /\ pc = "done" => result = p_ret
    /\ MergeFailed =>
          /\ p_ret \in {"false", "raised"}
          /\ b_ret = p_ret
          /\ pc = "done" => result = p_ret

\* C18 witness: the second of three batches failed after its encoder had
\* been spawned; the request returned failure with nothing at the output
\* path.
C18_Witness ==
    /\ pc = "done"
    /\ temp_dir # "none"
    /\ RequestBatches = 3
    /\ batch_idx = 1
    /\ spawned = 2
    /\ p_ret = "false"
    /\ result = "false"
    /\ OutPath \notin DOMAIN fs

\* C18 witness for the final merge: both batches succeeded, the merge pass
\* returned failure and so did the request.
C18_WitnessMerge ==
    /\ pc = "done"
    /\ temp_dir # "none"
    /\ RequestBatches = 2
    /\ batch_idx = 2
    /\ output_path = OutPath
    /\ p_ret = "false"
    /\ result = "false"

\* C19 as claimed: when a pass that spawned an encoder has left, on success
\* or by any error path after the spawn, the encoder's input stream is
\* closed and the encoder has been waited for.
C19_EncoderTornDown ==
    (ppc \in {"ret", "idle"} /\ proc \in {"running", "exited"}) =>
        (stdin = "closed" /\ proc = "exited")

\* the request went into _create_lighten_blend_video_batched
InBatchedPath == pc = "batched" \/ temp_dir # "none"

RECURSIVE BatchesFrom(_)
\* the batches b, b+1, ... of the request, one after another
BatchesFrom(b) ==
    IF b >= RequestBatches THEN << >>
    ELSE BatchInfos(video_infos, b, max_concurrent_videos) \o BatchesFrom(b + 1)

\* C20: in the batched path, with n probed sources and limit L, n > L:
\* the number of batches is ceil(n/L) and at least 2; the batches, put one
\* after another, are the probed sources in input order, each once; each
\* batch has between 1 and L sources and is what its pass is given; so the
\* merge is never reached with a single intermediate file.
C20_BatchesPartition ==
    InBatchedPath =>
        /\ Len(video_infos) > max_concurrent_videos
        /\ RequestBatches * max_concurrent_videos >= Len(video_infos)
        /\ (RequestBatches - 1) * max_concurrent_videos < Len(video_infos)
        /\ RequestBatches >= 2
        /\ BatchesFrom(0) = video_infos
        /\ \A b \in 0..(RequestBatches - 1) :
              /\ Len(BatchInfos(video_infos, b, max_concurrent_videos)) >= 1
              /\ Len(BatchInfos(video_infos, b, max_concurrent_videos))
                     <= max_concurrent_videos
        /\ pc = "batch_wait" =>
              p_infos = BatchInfos(video_infos, batch_idx, max_concurrent_videos)
        /\ pc = "final" =>
              /\ Len(intermediate_files) = RequestBatches
              /\ Len(intermediate_files) # 1

\* C20 witness: three sources under limit 2 went through a batch of two and
\* a batch of one, and the merge is about to start with two intermediates.
C20_Witness ==
    /\ pc = "final"
    /\ Len(video_infos) = 3
    /\ max_concurrent_videos = 2
    /\ RequestBatches = 2
    /\ Len(BatchInfos(video_infos, 0, 2)) = 2
    /\ Len(BatchInfos(video_infos, 1, 2)) = 1
    /\ Len(intermediate_files) = 2

\* a request was started and its on_complete has not run yet
RequestInProgress == running + completions > 0

\* C21 as claimed: in the window at most one compositing request is running
\* at any time, and from the start of a request until its on_complete has
\* run both create buttons are disabled, whatever files are dropped, added
\* or removed meanwhile.
C21_OneRequestAtATime ==
    /\ running <= 1
    /\ RequestInProgress =>
          (btn_create_image = "disabled" /\ btn_create_video = "disabled")

====
